---- MODULE Spec2Model ----
(***************************************************************************)
(* A model of the catalog service of src/app.py: the text utilities        *)
(* (normalize_text, extract_keywords), the catalog synchronisation         *)
(* sync_catalog_to_supabase from SQL Server (dbo.ConsStock) to the         *)
(* Supabase table productos_catalogo, and the /search-multi endpoint.      *)
(*                                                                         *)
(* Texts are sequences of one-character strings.  Python's None is the     *)
(* one-element sequence <<"None">>, which no text equals: every element of *)
(* a text is a single character.                                           *)
(***************************************************************************)
EXTENDS Integers, Sequences, FiniteSets, TLC

None == <<"None">>

\* Python's truth value of an optional text: None and "" are false.
IsFalsy(text) == text = None \/ text = <<>>

(***************************************************************************)
(* Text utilities, src/app.py:40-69                                        *)
(***************************************************************************)

\* str.lower() on the characters the model draws texts from.
lower_char(c) ==
    CASE c = "A" -> "a"
      [] c = "C" -> "c"
      [] c = "D" -> "d"
      [] c = "E" -> "e"
      [] c = "L" -> "l"
      [] c = "O" -> "o"
      [] c = "S" -> "s"
      [] c = "T" -> "t"
      [] c = "Á" -> "á"
      [] c = "É" -> "é"
      [] c = "Í" -> "í"
      [] c = "Ó" -> "ó"
      [] c = "Ú" -> "ú"
      [] c = "Ñ" -> "ñ"
      [] c = "Ü" -> "ü"
      [] OTHER -> c

lower(text) == [i \in 1..Len(text) |-> lower_char(text[i])]

\* The replacements dict of normalize_text, in insertion order.
replacements ==
    << <<"á", "a">>, <<"é", "e">>, <<"í", "i">>, <<"ó", "o">>,
       <<"ú", "u">>, <<"ñ", "n">>, <<"ü", "u">> >>

\* str.replace(old, new) for one-character old and new.
replace(text, old, new) ==
    [i \in 1..Len(text) |-> IF text[i] = old THEN new ELSE text[i]]

\* for old, new in replacements.items(): text = text.replace(old, new)
RECURSIVE replace_all(_, _)
replace_all(text, k) ==
    IF k > Len(replacements) THEN text
    ELSE replace_all(replace(text, replacements[k][1], replacements[k][2]), k + 1)

\* \s of re, and str.isspace: the white-space characters of the model.
is_space(c) == c \in {" ", "\t", "\n"}

\* re.sub(r'\s+', ' ', text): every maximal run of white space becomes one
\* space.
RECURSIVE collapse_spaces(_)
collapse_spaces(text) ==
    IF text = <<>> THEN <<>>
    ELSE IF is_space(Head(text))
         THEN IF Len(text) > 1 /\ is_space(text[2])
              THEN collapse_spaces(Tail(text))
              ELSE <<" ">> \o collapse_spaces(Tail(text))
         ELSE <<Head(text)>> \o collapse_spaces(Tail(text))

\* str.strip(): leading and trailing white space removed.
RECURSIVE lstrip(_)
lstrip(text) ==
    IF text # <<>> /\ is_space(Head(text)) THEN lstrip(Tail(text)) ELSE text

RECURSIVE rstrip(_)
rstrip(text) ==
    IF text # <<>> /\ is_space(text[Len(text)])
    THEN rstrip(SubSeq(text, 1, Len(text) - 1))
    ELSE text

strip(text) == rstrip(lstrip(text))

\* normalize_text with the replacements made before the lowering.
normalize_text_ReplaceFirst(text) ==
    IF IsFalsy(text) THEN <<>>
    ELSE strip(collapse_spaces(lower(replace_all(text, 1))))

normalize_text(text) ==
    IF IsFalsy(text) THEN <<>>
    ELSE strip(collapse_spaces(replace_all(lower(text), 1)))

\* \w of re: letters, digits and the underscore.
is_word_char(c) ==
    c \in {"a", "c", "d", "e", "i", "l", "n", "o", "p", "r", "s", "t", "u", "y",
           "A", "C", "D", "E", "L", "O", "S", "T",
           "á", "é", "í", "ó", "ú", "ñ", "ü",
           "Á", "É", "Í", "Ó", "Ú", "Ñ", "Ü",
           "0", "1", "2", "_", "U+2102"}

\* re.findall(r'\b\w+\b', text): the maximal runs of word characters, in
\* order.  cur is the run being read.
RECURSIVE find_words(_, _)
find_words(text, cur) ==
    IF text = <<>> THEN (IF cur = <<>> THEN <<>> ELSE <<cur>>)
    ELSE IF is_word_char(Head(text))
         THEN find_words(Tail(text), Append(cur, Head(text)))
         ELSE (IF cur = <<>> THEN <<>> ELSE <<cur>>) \o find_words(Tail(text), <<>>)

stop_words ==
    { <<"d","e">>, <<"l","a">>, <<"e","l">>, <<"e","n">>, <<"c","o","n">>,
      <<"p","a","r","a">>, <<"p","o","r">>, <<"u","n">>, <<"u","n","a">>,
      <<"y">>, <<"o">>, <<"d","e","l">>, <<"l","a","s">>, <<"l","o","s">> }

\* keywords = [w for w in words if len(w) > 2 and w not in stop_words]
keep_word(w) == Len(w) > 2 /\ w \notin stop_words

\* A variant that is always the plural.
variant_AlwaysPlural(word) == Append(word, "s")

\* The variant added for a kept word: the singular or the plural.
variant(word) ==
    IF word[Len(word)] = "s" /\ Len(word) > 3
    THEN SubSeq(word, 1, Len(word) - 1)
    ELSE Append(word, "s")

\* The result is list(set(...)): a collection without duplicates whose order
\* carries no meaning, modelled as the set.
extract_keywords(description) ==
    IF IsFalsy(description) THEN {}
    ELSE LET words == find_words(normalize_text(description), <<>>)
             keywords == SelectSeq(words, keep_word)
             kept == {keywords[i] : i \in 1..Len(keywords)}
         IN kept \cup {variant(w) : w \in kept}

(***************************************************************************)
(* The source database dbo.ConsStock.  A table is a function from Codigo   *)
(* (codes are numbered in their ORDER BY order) to the row.  The tables    *)
(* the model draws from are named by their number n of eligible rows       *)
(* (PrecioFinal > 0); each also holds two rows that are not eligible.      *)
(***************************************************************************)

batch_size == 1000

\* The largest number of eligible rows of a table.
MaxRows == 2500

MaxCode == MaxRows + 2

Descs ==
    << <<"T", "a", "c", "o", "s">>,
       <<"Ó", "l", "e", "o", " ", " ", "d", "e">>,
       None,
       <<"c", "o", "n", "s">> >>

EligibleCodes(n) == IF n = 0 THEN {} ELSE {2} \cup 4..(n + 2)

Row(c) ==
    [Codigo |-> c,
     Descri |-> Descs[(c % Len(Descs)) + 1],
     PrecioFinal |-> IF c = 1 THEN 0
                     ELSE IF c = 3 THEN -5
                     ELSE (c % 3) + 1]

ConsStock(n) == [c \in {1, 3} \cup EligibleCodes(n) |-> Row(c)]

\* The tables the model draws the source from: in one behaviour the source
\* holds one table throughout, or changes between a small and a larger one.
Sizes == {0, 1, batch_size, batch_size + 1, MaxRows}

Scenarios == {{0}, {batch_size}, {1, batch_size + 1}, {MaxRows}}

\* A mutant of SyncQuery: the WHERE PrecioFinal > 0 is missing.
SyncQuery_NoFilter(table) ==
    LET Present(c) == c \in DOMAIN table
        codes == SelectSeq([c \in 1..MaxCode |-> c], Present)
    IN [j \in 1..Len(codes) |-> table[codes[j]]]

\* SELECT Codigo, Descri, PrecioFinal FROM dbo.ConsStock
\* WHERE PrecioFinal > 0 ORDER BY Codigo: the rows, in order.
SyncQuery(table) ==
    LET Eligible(c) == c \in DOMAIN table /\ table[c].PrecioFinal > 0
        codes == SelectSeq([c \in 1..MaxCode |-> c], Eligible)
    IN [j \in 1..Len(codes) |-> table[codes[j]]]

\* float(Decimal): the prices of the model are small integers, which a
\* binary64 holds exactly.
ToFloat(x) == x

\* normalize_text and extract_keywords of the descriptions the tables hold,
\* tabulated once: a read applies them to thousands of rows.
DescSet == {Descs[k] : k \in 1..Len(Descs)}

NormalizedDesc == [d \in DescSet |-> normalize_text(d)]

KeywordsOf == [d \in DescSet |-> extract_keywords(d)]

\* The dict built for one row, src/app.py:98-108; now is datetime.now().
Product(row, now) ==
    [codigo |-> row.Codigo,
     descripcion |-> row.Descri,
     descripcion_normalizada |-> NormalizedDesc[row.Descri],
     precio_final |-> IF row.PrecioFinal # 0 THEN ToFloat(row.PrecioFinal) ELSE 0,
     keywords |-> KeywordsOf[row.Descri],
     updated_at |-> now]

\* products, src/app.py:96-109.
ReadProducts(table, now) ==
    LET rows == SyncQuery(table)
    IN [j \in 1..Len(rows) |-> Product(rows[j], now)]

(***************************************************************************)
(* The mirror store: the rows of productos_catalogo, a set of entries.     *)
(***************************************************************************)

\* A mutant of DeleteAll: the rows stay until the inserts replace them.
DeleteAll_Keeps(rows) == rows

\* DELETE /rest/v1/productos_catalogo?codigo=not.is.null: every row has a
\* codigo, so every row goes.
DeleteAll(rows) == {e \in rows : FALSE}

\* A mutant of Upsert: the posted entries are added and nothing is replaced.
Upsert_AddsOnly(rows, batch) == rows \cup {batch[j] : j \in 1..Len(batch)}

\* POST with Prefer: resolution=merge-duplicates: a row with the codigo of a
\* posted entry is replaced by it, the other rows stay.
Upsert(rows, batch) ==
    LET posted == {batch[j] : j \in 1..Len(batch)}
        codes == {batch[j].codigo : j \in 1..Len(batch)}
    IN {e \in rows : e.codigo \notin codes} \cup posted

\* A mutant of Batch: the slice starts one entry late.
Batch_FromSecond(prods, off) ==
    SubSeq(prods, off + 2, IF off + batch_size < Len(prods)
                           THEN off + batch_size ELSE Len(prods))

\* products[i:i + batch_size] for the offset i (from 0).
Batch(prods, off) ==
    SubSeq(prods, off + 1, IF off + batch_size < Len(prods)
                           THEN off + batch_size ELSE Len(prods))

(***************************************************************************)
(* State.  The two threads of src/app.py:242-244 both run                  *)
(* sync_catalog_to_supabase: "initial" at start (run_sync_in_thread),      *)
(* "scheduler" when its job is due (run_scheduler).  No lock is shared, so *)
(* the two runs may overlap in any way.                                    *)
(***************************************************************************)

VARIABLES
    tables,          \* the contents dbo.ConsStock takes in this behaviour
    SUPABASE_URL,    \* os.environ.get('SUPABASE_URL'): None or a text
    SUPABASE_KEY,    \* os.environ.get('SUPABASE_KEY'): None or a text
    stdout,          \* sys.stdout.encoding, errors 'strict'
    mirror,          \* the rows of productos_catalogo
    clock,           \* the number of reads so far: datetime.now()
    products,        \* per thread: the local list products
    loop_i,          \* per thread: the loop variable i
    total_inserted,  \* per thread: the local total_inserted
    calls,           \* per thread: the requests the present run has issued
    readDb,          \* per thread: the table the present run has read
    readAt,          \* per thread: the clock of the present run's read
    disturbed,       \* per thread: the mirror has carried out a request of
                     \* another run since the bulk delete of the present run
    pc,              \* per thread: idle, delete, insert, returned, raised
    result,          \* per thread: the value the last run returned
    API_TOKEN,       \* os.environ.get("API_TOKEN"): None or a text
    request,         \* the arguments of the GET /search-multi being served
    search_db,       \* what search_multi has asked of the source database
    response,        \* the response of search_multi
    search_pc,       \* waiting, received, responded
    entry,           \* how the process was started: app.py, wsgi, start.py
    boot,            \* where the main thread is in the top-level code
    jobs,            \* the jobs registered with the schedule module
    wait,            \* polls left until the registered job is due
    runs,            \* the runs of the job run_pending has made
    text_in,         \* the argument of the text utility under study
    text_out,        \* what the utility returned
    text_op          \* none, normalized, normalized again, keywords

sync_vars == <<tables, SUPABASE_URL, SUPABASE_KEY, stdout, mirror, clock,
               products, loop_i, total_inserted, calls, readDb, readAt,
               disturbed, pc, result>>

search_vars == <<API_TOKEN, request, search_db, response, search_pc>>

proc_vars == <<entry, boot, jobs, wait, runs>>

text_vars == <<text_in, text_out, text_op>>

vars == <<sync_vars, search_vars, proc_vars, text_vars>>

\* The environment, which no action changes.
env == <<tables, SUPABASE_URL, SUPABASE_KEY, stdout>>

Threads == {"initial", "scheduler"}

DeleteOk == {200, 204}
InsertOk == {200, 201, 204}

\* The statuses the mirror store answers with in the model.
DeleteStatuses == {204, 500}
InsertStatuses == {201, 500}

Call(op, status, raised, codes) ==
    [op |-> op, status |-> status, raised |-> raised, codes |-> codes]

CodesOf(batch) == [j \in 1..Len(batch) |-> batch[j].codigo]

\* What an earlier run left in the mirror: entries of an older content, one
\* of a code the source no longer has.
StaleMirror == {Product(Row(c), 0) : c \in {0, 2}}

\* What os.environ.get gives: None (unset), the empty text, or a value.
EnvValues == {None, <<>>, <<"k">>}

\* A mutant of NotConfigured: "and" for "or".
NotConfigured_Both == IsFalsy(SUPABASE_URL) /\ IsFalsy(SUPABASE_KEY)

\* if not SUPABASE_URL or not SUPABASE_KEY, src/app.py:78.
NotConfigured == IsFalsy(SUPABASE_URL) \/ IsFalsy(SUPABASE_KEY)

\* The encodings of the standard output in the model: one that has every
\* character, and one that has the characters up to U+00FF only.  Both have
\* every character of the texts the program itself holds (src/app.py:240,
\* 246).
Encodings == {"utf-8", "latin-1"}

\* The characters of the model above U+00FF.
AboveLatin1 == {"U+2018", "U+2102"}

\* The texts that reach the program from outside and are printed: the
\* message of an exception (pyodbc, requests) and the text of a response.
OutsideTexts == {<<"e", "r", "r">>, <<"ó">>, <<"U+2018">>}

\* print(text) to a standard output of that encoding raises
\* UnicodeEncodeError: the encoding has no bytes for a character of text.
write_raises(encoding, text) ==
    /\ encoding = "latin-1"
    /\ \E i \in 1..Len(text) : text[i] \in AboveLatin1

\* src/app.py:149: the pairs of the for loop.
msg_pairs ==
    << <<"ó", "o">>, <<"í", "i">>, <<"á", "a">>, <<"é", "e">>, <<"ú", "u">> >>

\* src/app.py:148-150: msg = str(e), and msg = msg.replace(a, b) for
\* every pair.
RECURSIVE msg_replace(_, _)
msg_replace(text, k) ==
    IF k > Len(msg_pairs) THEN text
    ELSE msg_replace(replace(text, msg_pairs[k][1], msg_pairs[k][2]), k + 1)

msg(e) == msg_replace(e, 1)

\* The mirror store carries out (or not) a request of thread t: if it does,
\* every other run that has sent its bulk delete is disturbed from now on.
Disturbs(t, carried_out) ==
    disturbed' = [u \in DOMAIN disturbed |->
                    IF carried_out /\ u # t /\ Len(calls[u]) >= 2
                    THEN TRUE ELSE disturbed[u]]

\* No thread has called sync_catalog_to_supabase yet.
SyncIdle ==
    /\ mirror = StaleMirror
    /\ clock = 0
    /\ products = [t \in Threads |-> <<>>]
    /\ loop_i = [t \in Threads |-> 0]
    /\ total_inserted = [t \in Threads |-> 0]
    /\ calls = [t \in Threads |-> <<>>]
    /\ readDb = [t \in Threads |-> 0]
    /\ readAt = [t \in Threads |-> 0]
    /\ disturbed = [t \in Threads |-> FALSE]
    /\ pc = [t \in Threads |-> "idle"]
    /\ result = [t \in Threads |-> FALSE]

\* The process as the sync and the search see it: started from app.py with
\* its top-level code done.
ProcIdle ==
    /\ entry = "app.py"
    /\ boot = "serving"
    /\ jobs = 0
    /\ wait = 0
    /\ runs = 0

\* No text utility is under study.
TextIdle ==
    /\ text_in = None
    /\ text_out = None
    /\ text_op = "none"

\* No request has arrived yet.
SearchIdle ==
    /\ request = [token |-> None, query |-> None]
    /\ search_db = [connects |-> 0, where |-> <<>>, params |-> <<>>, raised |-> ""]
    /\ response = [status |-> 0, error |-> "", total |-> 0, results |-> <<>>]
    /\ search_pc = "waiting"

\* The source and the standard output of a behaviour: every scenario with
\* the output that has every character, and the smallest tables with the
\* other one (what a print does depends on no row of the source).
SyncInputs ==
    {<<s, "utf-8">> : s \in Scenarios} \cup {<<s, "latin-1">> : s \in {{0}, {1}}}

SyncInit ==
    /\ \E input \in SyncInputs : tables = input[1] /\ stdout = input[2]
    /\ SUPABASE_URL \in EnvValues
    /\ SUPABASE_KEY \in EnvValues
    /\ SyncIdle
    /\ API_TOKEN = None
    /\ SearchIdle
    /\ ProcIdle
    /\ TextIdle

\* The thread t is about to call sync_catalog_to_supabase: the initial
\* thread at start (src/app.py:228), the scheduler when the job is due
\* (src/app.py:213-217).
MayCall(t) == pc[t] = "idle"

\* return value: the run of t is over.
Return(t, value) ==
    /\ pc' = [pc EXCEPT ![t] = "returned"]
    /\ result' = [result EXCEPT ![t] = value]
    /\ products' = [products EXCEPT ![t] = <<>>]

\* except Exception as e (src/app.py:146-152): the message is printed and
\* the run returns False; when the print of line 151 raises, its exception
\* leaves sync_catalog_to_supabase, and the run is over with no value.
Except(t, e) ==
    IF write_raises(stdout, msg(e))
    THEN /\ pc' = [pc EXCEPT ![t] = "raised"]
         /\ products' = [products EXCEPT ![t] = <<>>]
         /\ UNCHANGED result
    ELSE Return(t, FALSE)

\* src/app.py:78-80: Supabase is not configured.
SyncSkip(t) ==
    /\ MayCall(t)
    /\ NotConfigured
    /\ calls' = [calls EXCEPT ![t] = <<>>]
    /\ Return(t, FALSE)
    /\ UNCHANGED <<search_vars, proc_vars, text_vars>>
    /\ UNCHANGED <<env, mirror, clock, loop_i, total_inserted, readDb, readAt,
                   disturbed>>

\* src/app.py:82-111: connect, query and build products.  The content of
\* dbo.ConsStock at that moment is an input: the inventory system writes it.
SyncRead(t) ==
    /\ MayCall(t)
    /\ ~NotConfigured
    /\ clock' = clock + 1
    /\ calls' = [calls EXCEPT ![t] = <<Call("CONNECT", 0, FALSE, <<>>)>>]
    /\ \E n \in tables :
          /\ products' = [products EXCEPT ![t] = ReadProducts(ConsStock(n), clock')]
          /\ readDb' = [readDb EXCEPT ![t] = n]
    /\ readAt' = [readAt EXCEPT ![t] = clock']
    /\ disturbed' = [disturbed EXCEPT ![t] = FALSE]
    /\ pc' = [pc EXCEPT ![t] = "delete"]
    /\ UNCHANGED <<search_vars, proc_vars, text_vars>>
    /\ UNCHANGED <<env, mirror, loop_i, total_inserted, result>>

\* src/app.py:86-109 raises (pyodbc.connect, execute, fetchall or the
\* enrichment of a row): caught at 146.
SyncReadFails(t) ==
    /\ MayCall(t)
    /\ ~NotConfigured
    /\ calls' = [calls EXCEPT ![t] = <<Call("CONNECT", 0, TRUE, <<>>)>>]
    /\ \E e \in OutsideTexts : Except(t, e)
    /\ UNCHANGED <<search_vars, proc_vars, text_vars>>
    /\ UNCHANGED <<env, mirror, clock, loop_i, total_inserted, readDb, readAt,
                   disturbed>>

\* The for loop of src/app.py:133 from offset off on: the next batch is
\* posted, or the loop is over and the run returns True (143-144).
Loop(t, off, total) ==
    /\ loop_i' = [loop_i EXCEPT ![t] = off]
    /\ total_inserted' = [total_inserted EXCEPT ![t] = total]
    /\ IF off < Len(products[t])
       THEN /\ pc' = [pc EXCEPT ![t] = "insert"]
            /\ UNCHANGED <<products, result>>
       ELSE Return(t, TRUE)

\* src/app.py:121-131: the bulk delete answers with a status and a text.
\* A status outside (200, 204) is printed with the text (126) and the run
\* goes on; when that print raises, the UnicodeEncodeError is caught at 146
\* (its own message is ASCII, so the print of 151 succeeds) and the run
\* returns False with no batch posted.
SyncDelete(t) ==
    /\ pc[t] = "delete"
    /\ \E status \in DeleteStatuses, text \in OutsideTexts :
          /\ mirror' = IF status \in DeleteOk THEN DeleteAll(mirror) ELSE mirror
          /\ calls' = [calls EXCEPT ![t] =
                           Append(@, Call("DELETE", status, FALSE, <<>>))]
          /\ Disturbs(t, status \in DeleteOk)
          /\ IF status \notin DeleteOk /\ write_raises(stdout, text)
             THEN Return(t, FALSE) /\ UNCHANGED <<loop_i, total_inserted>>
             ELSE Loop(t, 0, 0)
    /\ UNCHANGED <<search_vars, proc_vars, text_vars>>
    /\ UNCHANGED <<env, clock, readDb, readAt>>

\* requests.delete raises: caught at 146.  The store may or may not have
\* carried the delete out.
SyncDeleteRaises(t) ==
    /\ pc[t] = "delete"
    /\ \E done \in BOOLEAN :
          /\ mirror' = IF done THEN DeleteAll(mirror) ELSE mirror
          /\ Disturbs(t, done)
    /\ calls' = [calls EXCEPT ![t] = Append(@, Call("DELETE", 0, TRUE, <<>>))]
    /\ \E e \in OutsideTexts : Except(t, e)
    /\ UNCHANGED <<search_vars, proc_vars, text_vars>>
    /\ UNCHANGED <<env, clock, loop_i, total_inserted, readDb, readAt>>

\* A mutant of SyncInsert: a failed batch is printed and the loop goes on.
SyncInsert_KeepsGoing(t) ==
    /\ pc[t] = "insert"
    /\ LET batch == Batch(products[t], loop_i[t])
       IN \E status \in InsertStatuses :
            /\ calls' = [calls EXCEPT ![t] =
                             Append(@, Call("POST", status, FALSE, CodesOf(batch)))]
            /\ mirror' = IF status \in InsertOk THEN Upsert(mirror, batch) ELSE mirror
            /\ Loop(t, loop_i[t] + batch_size,
                    total_inserted[t] + IF status \in InsertOk THEN Len(batch) ELSE 0)
            /\ Disturbs(t, status \in InsertOk)
    /\ UNCHANGED <<search_vars, proc_vars, text_vars>>
    /\ UNCHANGED <<env, clock, readDb, readAt>>

\* src/app.py:134-141: one batch is posted and answered with a status.  A
\* status outside (200, 201, 204) is printed with the text of the response
\* (140) and the run returns False (141); when that print raises, the
\* UnicodeEncodeError is caught at 146, its ASCII message is printed and
\* the run returns False (152) as well.
SyncInsert(t) ==
    /\ pc[t] = "insert"
    /\ LET batch == Batch(products[t], loop_i[t])
       IN \E status \in InsertStatuses :
            /\ calls' = [calls EXCEPT ![t] =
                             Append(@, Call("POST", status, FALSE, CodesOf(batch)))]
            /\ IF status \in InsertOk
               THEN /\ mirror' = Upsert(mirror, batch)
                    /\ Loop(t, loop_i[t] + batch_size,
                            total_inserted[t] + Len(batch))
               ELSE /\ mirror' = mirror
                    /\ Return(t, FALSE)
                    /\ UNCHANGED <<loop_i, total_inserted>>
            /\ Disturbs(t, status \in InsertOk)
    /\ UNCHANGED <<search_vars, proc_vars, text_vars>>
    /\ UNCHANGED <<env, clock, readDb, readAt>>

\* requests.post raises: caught at 146.  The store may or may not have
\* merged the batch.
SyncInsertRaises(t) ==
    /\ pc[t] = "insert"
    /\ LET batch == Batch(products[t], loop_i[t])
       IN /\ \E done \in BOOLEAN :
               /\ mirror' = IF done THEN Upsert(mirror, batch) ELSE mirror
               /\ Disturbs(t, done)
          /\ calls' = [calls EXCEPT ![t] =
                           Append(@, Call("POST", 0, TRUE, CodesOf(batch)))]
    /\ \E e \in OutsideTexts : Except(t, e)
    /\ UNCHANGED <<search_vars, proc_vars, text_vars>>
    /\ UNCHANGED <<env, clock, loop_i, total_inserted, readDb, readAt>>

SyncNext ==
    \/ \E t \in Threads :
          \/ SyncSkip(t)
          \/ SyncRead(t)
          \/ SyncReadFails(t)
          \/ SyncDelete(t)
          \/ SyncDeleteRaises(t)
          \/ SyncInsert(t)
          \/ SyncInsertRaises(t)

SyncSpec == SyncInit /\ [][SyncNext]_vars

(***************************************************************************)
(* GET /search-multi (src/app.py:159-200).  One request is followed from   *)
(* its arrival to its response; the handler keeps no state between         *)
(* requests.                                                               *)
(***************************************************************************)

\* str.split(sep) for a one-character sep: the pieces between the
\* separators, empty pieces included.  cur is the piece being read.
RECURSIVE split(_, _, _)
split(text, sep, cur) ==
    IF text = <<>> THEN <<cur>>
    ELSE IF Head(text) = sep
         THEN <<cur>> \o split(Tail(text), sep, <<>>)
         ELSE split(Tail(text), sep, Append(cur, Head(text)))

\* sep.join(pieces) for a one-character sep.
RECURSIVE join(_, _)
join(pieces, sep) ==
    IF Len(pieces) = 1 THEN pieces[1]
    ELSE pieces[1] \o <<sep>> \o join(Tail(pieces), sep)

\* request.args.get("query", "").strip()
query_param_of(query) == IF query = None THEN <<>> ELSE strip(query)

terms_KeepEmpty(query_param) ==
    LET pieces == split(query_param, ",", <<>>)
    IN [i \in 1..Len(pieces) |-> strip(pieces[i])]

RECURSIVE dedup(_)
dedup(seq) ==
    IF seq = <<>> THEN <<>>
    ELSE LET rest == dedup(SubSeq(seq, 1, Len(seq) - 1))
             last == seq[Len(seq)]
         IN IF \E i \in 1..Len(rest) : rest[i] = last THEN rest
            ELSE Append(rest, last)

terms_Dedup(query_param) ==
    LET pieces == split(query_param, ",", <<>>)
        stripped == [i \in 1..Len(pieces) |-> strip(pieces[i])]
    IN dedup(SelectSeq(stripped, LAMBDA t : ~IsFalsy(t)))

\* terms = [t.strip() for t in query_param.split(",") if t.strip()]
terms_of(query_param) ==
    LET pieces == split(query_param, ",", <<>>)
        stripped == [i \in 1..Len(pieces) |-> strip(pieces[i])]
    IN SelectSeq(stripped, LAMBDA t : ~IsFalsy(t))

\* " OR ".join(["Descri LIKE ?" for _ in terms]): the text as its tokens.
like_clauses(terms) ==
    [k \in 1..(2 * Len(terms) - 1) |->
        IF k % 2 = 1 THEN "Descri LIKE ?" ELSE "OR"]

\* params = [f"%{t}%" for t in terms]
params_of(terms) == [i \in 1..Len(terms) |-> <<"%">> \o terms[i] \o <<"%">>]

\* The condition of the query: WHERE {like_clauses} AND PrecioFinal > 0
where_of(terms) == like_clauses(terms) \o <<"AND", "PrecioFinal > 0">>

\* SELECT TOP 200
TOP == 200

\* T-SQL LIKE: % stands for any text, _ for any one character.
RECURSIVE Like(_, _)
Like(text, pattern) ==
    IF pattern = <<>> THEN text = <<>>
    ELSE IF Head(pattern) = "%"
         THEN \/ Like(text, Tail(pattern))
              \/ text # <<>> /\ Like(Tail(text), pattern)
         ELSE /\ text # <<>>
              /\ Head(pattern) = "_" \/ Head(pattern) = Head(text)
              /\ Like(Tail(text), Tail(pattern))

\* The condition as the database reads it for one row: AND binds tighter
\* than OR, so the condition is a disjunction of conjunctions; the k-th
\* placeholder takes the k-th parameter; a predicate on NULL is not true.
Holds(row, where, params) ==
    LET nth(i) == Cardinality({j \in 1..i : where[j] = "Descri LIKE ?"})
        Atom(i) ==
            IF where[i] = "Descri LIKE ?"
            THEN row.Descri # None /\ Like(row.Descri, params[nth(i)])
            ELSE row.PrecioFinal > 0
        IsOperandOfOr(i, j) ==
            /\ i <= j
            /\ i = 1 \/ where[i - 1] = "OR"
            /\ j = Len(where) \/ where[j + 1] = "OR"
            /\ \A k \in i..j : where[k] # "OR"
    IN \E i \in 1..Len(where), j \in 1..Len(where) :
          /\ IsOperandOfOr(i, j)
          /\ \A k \in i..j : where[k] = "AND" \/ Atom(k)

\* The rows of dbo.ConsStock a request finds.  Every row has a price of its
\* own but the rows named here, which have the price of another row: the
\* rows 4, 5 and 7 are the cheapest rows on sale and have one price, the
\* rows 269 and 271 are the 200th and 201st row on sale that has a
\* description, the rows 800 and 804 the 200th and 201st whose description
\* holds an "a".
SamePriceAs == [c \in {5, 7, 271, 804} |->
                  IF c \in {5, 7} THEN 4 ELSE IF c = 271 THEN 269 ELSE 800]

SearchRow(c) ==
    [Codigo |-> c,
     Descri |-> Row(c).Descri,
     PrecioFinal |-> IF c \in {1, 3} THEN Row(c).PrecioFinal
                     ELSE IF c \in DOMAIN SamePriceAs THEN SamePriceAs[c]
                     ELSE c]

\* What the condition reads in a row: its description and whether its
\* price is above 0.
ClassOf(row) ==
    [Descri |-> row.Descri,
     PrecioFinal |-> IF row.PrecioFinal > 0 THEN 1 ELSE 0]

RowClasses == {ClassOf(SearchRow(c)) : c \in 1..MaxCode}

\* The rows of the table the condition holds for, by their codes.
Matching(table, where, params) ==
    LET good == {cls \in RowClasses : Holds(cls, where, params)}
    IN {c \in DOMAIN table : ClassOf(table[c]) \in good}

\* The ways to put k members of the set in a row.
Arrangements(S, k) ==
    {a \in [1..k -> S] : \A i, j \in 1..k : i # j => a[i] # a[j]}

\* The codes in ascending order.
RECURSIVE ByCode(_)
ByCode(codes) ==
    IF codes = {} THEN <<>>
    ELSE LET least == CHOOSE c \in codes : \A d \in codes : c <= d
         IN <<least>> \o ByCode(codes \ {least})

\* ORDER BY PrecioFinal ASC, for rows given by their codes and of prices
\* between lo and hi: the rows in order of price, those of one price in
\* order of code.
RECURSIVE OrderByPrecioFinal(_, _, _, _)
OrderByPrecioFinal(table, codes, lo, hi) ==
    IF codes = {} THEN <<>>
    ELSE IF lo = hi THEN ByCode(codes)
    ELSE LET mid == (lo + hi) \div 2
             low == {c \in codes : table[c].PrecioFinal <= mid}
         IN OrderByPrecioFinal(table, low, lo, mid)
            \o OrderByPrecioFinal(table, codes \ low, mid + 1, hi)

\* SELECT TOP n ... ORDER BY PrecioFinal ASC: the price of the last row
\* returned, which is the lowest price p between lo and hi such that n of
\* the rows found have a price of p or less.
RECURSIVE LastPrice(_, _, _, _, _)
LastPrice(table, found, n, lo, hi) ==
    IF lo = hi THEN lo
    ELSE LET mid == (lo + hi) \div 2
             upto == {c \in found : table[c].PrecioFinal <= mid}
         IN IF Cardinality(upto) >= n
            THEN LastPrice(table, upto, n, lo, mid)
            ELSE LastPrice(table, found \ upto, n - Cardinality(upto), mid + 1, hi)

\* cursor.execute(query, params) and fetchall(): the results the database
\* may give.  A result holds the first TOP of the rows the condition holds
\* for in one of their orders by price: every row cheaper than the last
\* row returned, and, of the rows of that last price, the number that
\* fills the result.  Which rows of one price are returned and in what
\* order is the database's choice.
Execute(table, where, params) ==
    LET found == Matching(table, where, params)
        n == IF Cardinality(found) < TOP THEN Cardinality(found) ELSE TOP
        prices == {table[c].PrecioFinal : c \in found}
        lowest == CHOOSE p \in prices : \A q \in prices : p <= q
        highest == 0 - (CHOOSE p \in {0 - q : q \in prices} :
                           \A q \in prices : p <= 0 - q)
        cut == LastPrice(table, found, n, lowest, highest)
        upto == {c \in found : table[c].PrecioFinal <= cut}
        under == {c \in upto : table[c].PrecioFinal < cut}
        Group(p) == {c \in upto : table[c].PrecioFinal = p}
        Tied(byPrice) ==
            {table[byPrice[i]].PrecioFinal : i \in
                {j \in 2..Len(byPrice) : table[byPrice[j]].PrecioFinal
                                           = table[byPrice[j - 1]].PrecioFinal}}
        Choices(p) ==
            Arrangements(Group(p), IF p = cut THEN n - Cardinality(under)
                                   ELSE Cardinality(Group(p)))
        First(p, byPrice) == CHOOSE i \in 1..Len(byPrice) :
                                /\ table[byPrice[i]].PrecioFinal = p
                                /\ i = 1 \/ table[byPrice[i - 1]].PrecioFinal # p
        Result(byPrice, first, chosen) ==
            [i \in 1..n |->
                LET p == table[byPrice[i]].PrecioFinal
                IN table[IF p \in DOMAIN chosen THEN chosen[p][i - first[p] + 1]
                         ELSE byPrice[i]]]
    IN IF found = {} THEN {<<>>}
       ELSE UNION {UNION {
                {Result(byPrice, [p \in tied |-> First(p, byPrice)], chosen) :
                    chosen \in {f \in [tied -> UNION {Choices(p) : p \in tied}] :
                                   \A p \in tied : f[p] \in Choices(p)}} :
                tied \in {Tied(byPrice)}} :
                byPrice \in {OrderByPrecioFinal(table, upto, lowest, cut)}}

\* record = dict(zip(columns, row)), a Decimal turned into a float.
Record(row) ==
    [Codigo |-> row.Codigo, Descri |-> row.Descri,
     PrecioFinal |-> ToFloat(row.PrecioFinal)]

\* The tables a request may find, by their number of eligible rows.
SearchSizes == {1, MaxRows}

SearchTable == [n \in SearchSizes |-> [c \in DOMAIN ConsStock(n) |-> SearchRow(c)]]

\* The token argument of a request: missing, empty, the text "k" and two
\* texts close to it.
Tokens == {None, <<>>, <<"k">>, <<"K">>, <<"k", " ">>}

\* The query argument of a request: missing, or up to MaxPieces of these
\* pieces with commas between them.
Pieces == {<<>>, <<" ">>, <<"a">>, <<" ", "e", " ">>, <<"%">>}

MaxPieces == 3

Queries ==
    {None} \cup
    {join(ps, ",") : ps \in UNION {[1..k -> Pieces] : k \in 1..MaxPieces}}

\* What the database does when asked.
DbOutcomes == {"ok", "connect raises", "execute raises"}

Response(status, error, results) ==
    [status |-> status, error |-> error, total |-> Len(results),
     results |-> results]

SearchInit ==
    /\ API_TOKEN \in EnvValues
    /\ SearchIdle
    /\ tables = {0}
    /\ SUPABASE_URL = None
    /\ SUPABASE_KEY = None
    /\ stdout = "utf-8"
    /\ SyncIdle
    /\ ProcIdle
    /\ TextIdle

\* A GET /search-multi arrives.
GetRequest ==
    /\ search_pc = "waiting"
    /\ \E token \in Tokens, query \in Queries :
          request' = [token |-> token, query |-> query]
    /\ search_pc' = "received"
    /\ UNCHANGED <<API_TOKEN, search_db, response, sync_vars, proc_vars, text_vars>>

\* The handler without its except clause: an exception of the query leaves
\* the request without a response of the handler.
search_multi_NoExcept ==
    /\ search_pc = "received"
    /\ search_pc' = "responded"
    /\ \E n \in SearchSizes, db \in DbOutcomes :
       \E query_param \in {query_param_of(request.query)} :
       \E terms \in {terms_of(query_param)} :
       \E where \in {where_of(terms)}, params \in {params_of(terms)} :
          IF request.token # API_TOKEN
          THEN /\ response' = Response(403, "Unauthorized", <<>>)
               /\ UNCHANGED search_db
          ELSE IF IsFalsy(query_param)
          THEN /\ response' = Response(400, "Query parameter is required.", <<>>)
               /\ UNCHANGED search_db
          ELSE IF terms = <<>>
          THEN /\ response' = Response(400, "No valid terms provided.", <<>>)
               /\ UNCHANGED search_db
          ELSE IF db = "connect raises"
          THEN /\ response' = Response(500, "connection failed", <<>>)
               /\ search_db' = [connects |-> 1, where |-> <<>>, params |-> <<>>,
                               raised |-> "connection failed"]
          ELSE IF db = "execute raises"
          THEN /\ UNCHANGED response
               /\ search_db' = [connects |-> 1, where |-> where, params |-> params,
                               raised |-> "query failed"]
          ELSE \E rows \in Execute(SearchTable[n], where, params) :
               /\ response' =
                    Response(200, "", [i \in 1..Len(rows) |-> Record(rows[i])])
               /\ search_db' = [connects |-> 1, where |-> where, params |-> params,
                               raised |-> ""]
    /\ UNCHANGED <<API_TOKEN, request, sync_vars, proc_vars, text_vars>>

\* src/app.py:159-200.  search_db.raised is the message of the exception
\* the database calls raised, "" when they raised none.
search_multi ==
    /\ search_pc = "received"
    /\ search_pc' = "responded"
    /\ \E n \in SearchSizes, db \in DbOutcomes :
       \E query_param \in {query_param_of(request.query)} :
       \E terms \in {terms_of(query_param)} :
       \E where \in {where_of(terms)}, params \in {params_of(terms)} :
          IF request.token # API_TOKEN
          THEN /\ response' = Response(403, "Unauthorized", <<>>)
               /\ UNCHANGED search_db
          ELSE IF IsFalsy(query_param)
          THEN /\ response' = Response(400, "Query parameter is required.", <<>>)
               /\ UNCHANGED search_db
          ELSE IF terms = <<>>
          THEN /\ response' = Response(400, "No valid terms provided.", <<>>)
               /\ UNCHANGED search_db
          ELSE IF db = "connect raises"
          THEN /\ response' = Response(500, "connection failed", <<>>)
               /\ search_db' = [connects |-> 1, where |-> <<>>, params |-> <<>>,
                               raised |-> "connection failed"]
          ELSE IF db = "execute raises"
          THEN /\ response' = Response(500, "query failed", <<>>)
               /\ search_db' = [connects |-> 1, where |-> where, params |-> params,
                               raised |-> "query failed"]
          ELSE \E rows \in Execute(SearchTable[n], where, params) :
               /\ response' =
                    Response(200, "", [i \in 1..Len(rows) |-> Record(rows[i])])
               /\ search_db' = [connects |-> 1, where |-> where, params |-> params,
                               raised |-> ""]
    /\ UNCHANGED <<API_TOKEN, request, sync_vars, proc_vars, text_vars>>

SearchNext ==
    \/ GetRequest
    \/ search_multi

SearchSpec == SearchInit /\ [][SearchNext]_vars

(***************************************************************************)
(* The start of the process (src/app.py:240-255, src/start.py:1-25).  The  *)
(* main thread runs the top-level code of the modules; the threads it      *)
(* starts run the initial sync and the scheduler up to its polling loop.   *)
(***************************************************************************)

\* python app.py, a WSGI server importing app, python start.py.
EntryPoints == {"app.py", "wsgi", "start.py"}

\* The threads started by app.py and those started by start.py.
SyncThreads == {"initial", "initial again"}

SchedulerThreads == {"scheduler", "scheduler again"}

\* schedule.every(8).hours
hours == 8

\* time.sleep(60), in seconds
sleep == 60

\* The polls of the loop in one period of the job.
PollsPerPeriod == (hours * 3600) \div sleep

StartInit ==
    /\ entry \in EntryPoints
    /\ boot = "app module"
    /\ jobs = 0
    /\ wait = 0
    /\ runs = 0
    /\ tables \in {{0}, {1}}
    /\ SUPABASE_URL \in EnvValues
    /\ SUPABASE_KEY \in EnvValues
    /\ stdout \in Encodings
    /\ mirror = StaleMirror
    /\ clock = 0
    /\ products = [t \in SyncThreads \cup SchedulerThreads |-> <<>>]
    /\ loop_i = [t \in SyncThreads \cup SchedulerThreads |-> 0]
    /\ total_inserted = [t \in SyncThreads \cup SchedulerThreads |-> 0]
    /\ calls = [t \in SyncThreads \cup SchedulerThreads |-> <<>>]
    /\ readDb = [t \in SyncThreads \cup SchedulerThreads |-> 0]
    /\ readAt = [t \in SyncThreads \cup SchedulerThreads |-> 0]
    /\ disturbed = [t \in SyncThreads \cup SchedulerThreads |-> FALSE]
    /\ pc = [t \in SyncThreads \cup SchedulerThreads |-> "not started"]
    /\ result = [t \in SyncThreads \cup SchedulerThreads |-> FALSE]
    /\ API_TOKEN = None
    /\ SearchIdle
    /\ TextIdle

\* src/app.py:242-243: if SUPABASE_URL and SUPABASE_KEY:
\* Thread(target=run_sync_in_thread).start(), the first of the two starts;
\* else the message is printed and no thread is started.  The started
\* thread is about to call sync_catalog_to_supabase, and runs from now on.
AppStartsSync ==
    /\ boot = "app module"
    /\ IF NotConfigured
       THEN /\ boot' = "app module done"
            /\ UNCHANGED pc
       ELSE /\ boot' = "app module, sync started"
            /\ pc' = [pc EXCEPT !["initial"] = "idle"]
    /\ UNCHANGED <<env, mirror, clock, products, loop_i, total_inserted, calls,
                   readDb, readAt, disturbed, result>>
    /\ UNCHANGED <<search_vars, text_vars, entry, jobs, wait, runs>>

\* src/app.py:244: Thread(target=run_scheduler_in_thread, daemon=True)
\* .start(), the second start.
AppStartsScheduler ==
    /\ boot = "app module, sync started"
    /\ boot' = "app module done"
    /\ pc' = [pc EXCEPT !["scheduler"] = "started"]
    /\ UNCHANGED <<env, mirror, clock, products, loop_i, total_inserted, calls,
                   readDb, readAt, disturbed, result>>
    /\ UNCHANGED <<search_vars, text_vars, entry, jobs, wait, runs>>

\* src/app.py:253-255: the end of the top-level code of app.  When app.py
\* is the program app.run is called; when app was imported the import
\* returns, to the WSGI server, which serves, or to start.py, whose own
\* top-level code follows.
AppModuleEnds ==
    /\ boot = "app module done"
    /\ boot' = IF entry = "start.py" THEN "start module" ELSE "serving"
    /\ UNCHANGED <<sync_vars, search_vars, text_vars, entry, jobs, wait, runs>>

\* src/start.py:19-20: if SUPABASE_URL and SUPABASE_KEY:
\* Thread(target=run_sync_in_thread).start(), the first of the two starts;
\* else the message is printed and no thread is started.  The started
\* thread is about to call sync_catalog_to_supabase, and runs from now on.
StartStartsSync ==
    /\ boot = "start module"
    /\ IF NotConfigured
       THEN /\ boot' = "start module done"
            /\ UNCHANGED pc
       ELSE /\ boot' = "start module, sync started"
            /\ pc' = [pc EXCEPT !["initial again"] = "idle"]
    /\ UNCHANGED <<env, mirror, clock, products, loop_i, total_inserted, calls,
                   readDb, readAt, disturbed, result>>
    /\ UNCHANGED <<search_vars, text_vars, entry, jobs, wait, runs>>

\* src/start.py:21: Thread(target=run_scheduler_in_thread, daemon=True)
\* .start(), the second start.
StartStartsScheduler ==
    /\ boot = "start module, sync started"
    /\ boot' = "start module done"
    /\ pc' = [pc EXCEPT !["scheduler again"] = "started"]
    /\ UNCHANGED <<env, mirror, clock, products, loop_i, total_inserted, calls,
                   readDb, readAt, disturbed, result>>
    /\ UNCHANGED <<search_vars, text_vars, entry, jobs, wait, runs>>

\* src/start.py:25: app.run
StartModuleEnds ==
    /\ boot = "start module done"
    /\ boot' = "serving"
    /\ UNCHANGED <<sync_vars, search_vars, text_vars, entry, jobs, wait, runs>>

\* src/app.py:207-214: run_scheduler up to its loop.
run_scheduler(t) ==
    /\ pc[t] = "started"
    /\ IF NotConfigured
       THEN /\ pc' = [pc EXCEPT ![t] = "disabled"]
            /\ UNCHANGED <<jobs, wait>>
       ELSE /\ jobs' = jobs + 1
            /\ wait' = PollsPerPeriod
            /\ pc' = [pc EXCEPT ![t] = "polling"]
    /\ UNCHANGED <<env, mirror, clock, products, loop_i, total_inserted, calls,
                   readDb, readAt, disturbed, result>>
    /\ UNCHANGED <<search_vars, text_vars, entry, boot, runs>>

\* The steps of the call of sync_catalog_to_supabase a started thread
\* makes.  A thread is started only when Supabase is configured, so the
\* call never takes the return of src/app.py:78-80.
SyncStep(t) ==
    \/ SyncRead(t)
    \/ SyncReadFails(t)
    \/ SyncDelete(t)
    \/ SyncDeleteRaises(t)
    \/ SyncInsert(t)
    \/ SyncInsertRaises(t)

\* The main thread and the threads it has started run side by side.
StartNext ==
    \/ AppStartsSync
    \/ AppStartsScheduler
    \/ AppModuleEnds
    \/ StartStartsSync
    \/ StartStartsScheduler
    \/ StartModuleEnds
    \/ \E t \in SchedulerThreads : run_scheduler(t)
    \/ \E t \in SyncThreads : SyncStep(t)

StartSpec == StartInit /\ [][StartNext]_vars

(***************************************************************************)
(* The text utilities on their own (src/app.py:40-69): a text is drawn,    *)
(* and normalize_text is applied to it and then to its result, or          *)
(* extract_keywords is applied to it.                                      *)
(***************************************************************************)

\* The characters of the texts given to normalize_text: letters with and
\* without a lower-case form, letters of the replacements, white space.
\* "U+2102" is the one character DOUBLE-STRUCK CAPITAL C, an upper-case
\* letter (category Lu) that str.lower() leaves as it is.
TextChars == {"A", "Ó", "ñ", "s", "U+2102", " ", "\t"}

MaxTextLen == 3

Texts == UNION {[1..n -> TextChars] : n \in 0..MaxTextLen}

\* The words of the descriptions given to extract_keywords, and what stands
\* between two words.
Words ==
    { <<"d","e">>, <<"D","e","l">>, <<"d","e","l","s">>, <<"c","o","n","s">>,
      <<"T","a","c","o","s">>, <<"t","a","c","o">>, <<"Ó","l","e","o">>,
      <<"u","n","a","s">> }

MaxWords == 2

Separators == {<<" ">>, <<",", " ", " ">>}

RECURSIVE Glue(_, _)
Glue(words, sep) ==
    IF Len(words) = 1 THEN words[1]
    ELSE words[1] \o sep \o Glue(Tail(words), sep)

Descriptions ==
    {Glue(ws, sep) : ws \in UNION {[1..n -> Words] : n \in 1..MaxWords},
                     sep \in Separators}

TextInit ==
    /\ text_in \in {None} \cup Texts \cup Descriptions
    /\ text_out = None
    /\ text_op = "none"
    /\ tables = {0}
    /\ SUPABASE_URL = None
    /\ SUPABASE_KEY = None
    /\ stdout = "utf-8"
    /\ SyncIdle
    /\ API_TOKEN = None
    /\ SearchIdle
    /\ ProcIdle

\* normalized = normalize_text(text)
CallNormalize ==
    /\ text_op = "none"
    /\ text_out' = normalize_text(text_in)
    /\ text_op' = "normalized"
    /\ UNCHANGED <<text_in, sync_vars, search_vars, proc_vars>>

\* normalize_text(normalized): the result is given back as the argument.
CallNormalizeAgain ==
    /\ text_op = "normalized"
    /\ text_in' = text_out
    /\ text_out' = normalize_text(text_out)
    /\ text_op' = "normalized again"
    /\ UNCHANGED <<sync_vars, search_vars, proc_vars>>

\* keywords = extract_keywords(text)
CallExtractKeywords ==
    /\ text_op = "none"
    /\ text_out' = extract_keywords(text_in)
    /\ text_op' = "keywords"
    /\ UNCHANGED <<text_in, sync_vars, search_vars, proc_vars>>

TextNext ==
    \/ CallNormalize
    \/ CallNormalizeAgain
    \/ CallExtractKeywords

TextSpec == TextInit /\ [][TextNext]_vars

(***************************************************************************)
(* The scheduler loop (src/app.py:207-218) in the thread app.py starts for *)
(* it: run_pending runs the job when it is due, the job is                 *)
(* sync_catalog_to_supabase, and the schedule module sets the next run one *)
(* period after the job has returned.                                      *)
(***************************************************************************)

\* The runs of the job the model follows: after the last of them has
\* returned the model leaves the loop where it is.
MaxRuns == 2

\* The process at the start of the top-level code of app, Supabase
\* configured.
SchedulerInit ==
    /\ entry \in {"app.py", "wsgi"}
    /\ boot = "app module"
    /\ jobs = 0
    /\ wait = 0
    /\ runs = 0
    /\ tables \in {{0}, {1}}
    /\ SUPABASE_URL = <<"k">>
    /\ SUPABASE_KEY = <<"k">>
    /\ stdout \in Encodings
    /\ mirror = StaleMirror
    /\ clock = 0
    /\ products = [t \in Threads |-> <<>>]
    /\ loop_i = [t \in Threads |-> 0]
    /\ total_inserted = [t \in Threads |-> 0]
    /\ calls = [t \in Threads |-> <<>>]
    /\ readDb = [t \in Threads |-> 0]
    /\ readAt = [t \in Threads |-> 0]
    /\ disturbed = [t \in Threads |-> FALSE]
    /\ pc = [t \in Threads |-> "not started"]
    /\ result = [t \in Threads |-> FALSE]
    /\ API_TOKEN = None
    /\ SearchIdle
    /\ TextIdle

\* schedule.run_pending(): the job is run when it is due, and then calls
\* sync_catalog_to_supabase.
RunPending(t) ==
    /\ pc[t] = "polling"
    /\ IF wait = 0
       THEN /\ pc' = [pc EXCEPT ![t] = "idle"]
            /\ runs' = runs + 1
       ELSE /\ pc' = [pc EXCEPT ![t] = "sleeping"]
            /\ UNCHANGED runs
    /\ UNCHANGED <<env, mirror, clock, products, loop_i, total_inserted, calls,
                   readDb, readAt, disturbed, result>>
    /\ UNCHANGED <<search_vars, text_vars, entry, boot, jobs, wait>>

\* The call of sync_catalog_to_supabase thread t made is over: its local
\* variables are gone, and the thread has no present run any more.
RunIsOver(t) ==
    /\ loop_i' = [loop_i EXCEPT ![t] = 0]
    /\ total_inserted' = [total_inserted EXCEPT ![t] = 0]
    /\ calls' = [calls EXCEPT ![t] = <<>>]
    /\ readDb' = [readDb EXCEPT ![t] = 0]
    /\ readAt' = [readAt EXCEPT ![t] = 0]
    /\ disturbed' = [disturbed EXCEPT ![t] = FALSE]

\* The job has returned: whatever it returned, the schedule module sets its
\* next run one period from now, and run_pending returns.
JobReturns(t) ==
    /\ pc[t] = "returned"
    /\ runs < MaxRuns
    /\ wait' = PollsPerPeriod
    /\ pc' = [pc EXCEPT ![t] = "sleeping"]
    /\ RunIsOver(t)
    /\ UNCHANGED <<env, mirror, clock, products, result>>
    /\ UNCHANGED <<search_vars, text_vars, entry, boot, jobs, runs>>

\* src/app.py:225-230: sync_catalog_to_supabase has returned to
\* run_sync_in_thread, which does nothing with the value and returns, or
\* has raised, and the except of 229 prints the ASCII message of the
\* UnicodeEncodeError: the thread ends.
run_sync_in_thread(t) ==
    /\ pc[t] \in {"returned", "raised"}
    /\ pc' = [pc EXCEPT ![t] = "ended"]
    /\ result' = [result EXCEPT ![t] = FALSE]
    /\ RunIsOver(t)
    /\ UNCHANGED <<env, mirror, clock, products>>
    /\ UNCHANGED <<search_vars, text_vars, proc_vars>>

\* src/app.py:233-237: the exception that left sync_catalog_to_supabase
\* passes the job, schedule.run_pending() and the loop of run_scheduler
\* (none of them catches it) and is caught in run_scheduler_in_thread,
\* which prints its ASCII message and returns: the loop is over and the
\* thread ends.
run_scheduler_in_thread(t) ==
    /\ pc[t] = "raised"
    /\ pc' = [pc EXCEPT ![t] = "ended"]
    /\ RunIsOver(t)
    /\ UNCHANGED <<env, mirror, clock, products, result>>
    /\ UNCHANGED <<search_vars, text_vars, proc_vars>>

\* time.sleep(60)
Sleep(t) ==
    /\ pc[t] = "sleeping"
    /\ wait' = IF wait > 0 THEN wait - 1 ELSE 0
    /\ pc' = [pc EXCEPT ![t] = "polling"]
    /\ UNCHANGED <<env, mirror, clock, products, loop_i, total_inserted, calls,
                   readDb, readAt, disturbed, result>>
    /\ UNCHANGED <<search_vars, text_vars, entry, boot, jobs, runs>>

\* The steps of the scheduler thread.
SchedulerStep(t) ==
    \/ run_scheduler(t)
    \/ RunPending(t)
    \/ SyncStep(t)
    \/ JobReturns(t)
    \/ run_scheduler_in_thread(t)
    \/ Sleep(t)

\* The steps of the main thread in the top-level code of app.
MainStep ==
    \/ AppStartsSync
    \/ AppStartsScheduler
    \/ AppModuleEnds

\* The main thread starts the two threads; the initial sync runs beside
\* the scheduler loop.
SchedulerNext ==
    \/ MainStep
    \/ SyncStep("initial")
    \/ run_sync_in_thread("initial")
    \/ SchedulerStep("scheduler")

\* The main thread and the scheduler thread are not stopped for ever: a
\* call returns or raises, and a sleep ends.  Nothing is asked of the
\* thread of the initial sync.
SchedulerSpec ==
    /\ SchedulerInit
    /\ [][SchedulerNext]_vars
    /\ WF_vars(MainStep)
    /\ WF_vars(SchedulerStep("scheduler"))

(***************************************************************************)
(* What the claims speak of.                                               *)
(***************************************************************************)

\* The run of t has read the source without an exception.
ReadOk(t) == calls[t] # <<>> /\ ~calls[t][1].raised

\* The run of t has returned value.
Returned(t, value) == pc[t] = "returned" /\ result[t] = value

\* The insert requests of the run of t, in the order they were sent.
Posts(t) ==
    LET IsPost(c) == c.op = "POST"
    IN SelectSeq(calls[t], IsPost)

\* The delete requests of the run of t.
Deletes(t) ==
    LET IsDelete(c) == c.op = "DELETE"
    IN SelectSeq(calls[t], IsDelete)

\* The eligible rows of each table, by the claim's words: the rows whose
\* PrecioFinal is above 0.
EligibleRowsOf ==
    [n \in Sizes |->
        LET table == ConsStock(n)
        IN {table[c] : c \in {k \in DOMAIN table : table[k].PrecioFinal > 0}}]

EligibleRows(n) == EligibleRowsOf[n]

\* The enriched entries of the eligible rows of that table, read at time at.
Image(n, at) == {Product(row, at) : row \in EligibleRows(n)}

OneEntryPerCode(rows) == Cardinality({e.codigo : e \in rows}) = Cardinality(rows)

\* The bulk delete of the run of t was answered with a success status.
DeleteSucceeded(t) ==
    /\ Len(calls[t]) >= 2
    /\ ~calls[t][2].raised
    /\ calls[t][2].status \in {200, 204}

(***************************************************************************)
(* C1, as stated: whenever sync_catalog_to_supabase returns True, the      *)
(* mirror is at that moment exactly the set of enriched entries of the     *)
(* eligible rows the run has read, one entry per code and no older entry.  *)
(* It fails: a bulk delete answered with an error status is only printed,  *)
(* and another run may write between the delete and the return.            *)
(***************************************************************************)
C1_SuccessMeansExactImage ==
    [][\A t \in Threads :
          (pc[t] # "returned" /\ pc'[t] = "returned" /\ result'[t])
              => /\ mirror' = Image(readDb'[t], readAt'[t])
                 /\ OneEntryPerCode(mirror')]_vars

(***************************************************************************)
(* C1, amended: when sync_catalog_to_supabase has returned True, its bulk  *)
(* delete was answered 200 or 204, and the mirror has carried out no       *)
(* request of another run since that delete, then the mirror is exactly    *)
(* the set of enriched entries of the eligible rows the run has read, one  *)
(* entry per code and no older entry.                                      *)
(***************************************************************************)
C1_SuccessUndisturbedExactImage ==
    \A t \in Threads :
        (Returned(t, TRUE) /\ DeleteSucceeded(t) /\ ~disturbed[t])
            => /\ mirror = Image(readDb[t], readAt[t])
               /\ OneEntryPerCode(mirror)

\* A successful run over the largest table has replaced the stale mirror.
C1_Witness ==
    \E t \in Threads :
        /\ Returned(t, TRUE) /\ DeleteSucceeded(t) /\ ~disturbed[t]
        /\ readDb[t] = MaxRows
        /\ Cardinality(mirror) = MaxRows
        /\ mirror \cap StaleMirror = {}

\* The connection or the query of the run of t raised.
ConnectFailed(t) == calls[t] # <<>> /\ calls[t][1].raised

\* The entries the run of t built for the codes of one of its requests.
EntriesOf(t, call) ==
    LET table == ConsStock(readDb[t])
    IN {Product(table[call.codes[j]], readAt[t]) : j \in 1..Len(call.codes)}

\* The run of t has sent the mirror no request.
NoMirrorRequest(t) == Deletes(t) = <<>> /\ Posts(t) = <<>>

(***************************************************************************)
(* C2: a run that reaches its insert loop (its delete call did not raise,  *)
(* and it posted a batch or returned True) and whose insert calls all      *)
(* succeed has, once it has returned, posted exactly ceil(N/1000) batches  *)
(* for the N eligible rows it read: every batch of 1000 entries but the    *)
(* last, which holds N mod 1000 when that is not 0; the batches, one after *)
(* the other, are the eligible codes in increasing order, each once; and   *)
(* total_inserted is N.                                                    *)
(***************************************************************************)
C2_BatchesCoverRowsInOrder ==
    \A t \in Threads :
        LET posts == Posts(t)
            rows == EligibleRows(readDb[t])
            N == Cardinality(rows)
            K == (N + 999) \div 1000
            CodeAt(g) == posts[((g - 1) \div 1000) + 1].codes[((g - 1) % 1000) + 1]
        IN (/\ pc[t] = "returned"
            /\ ReadOk(t)
            /\ Len(calls[t]) >= 2 /\ ~calls[t][2].raised
            /\ (posts # <<>> \/ result[t])
            /\ \A k \in 1..Len(posts) :
                   ~posts[k].raised /\ posts[k].status \in {200, 201, 204})
           => /\ Len(posts) = K
              /\ \A k \in 1..K :
                    Len(posts[k].codes) =
                        IF k < K \/ N % 1000 = 0 THEN 1000 ELSE N % 1000
              /\ \A g \in 1..(N - 1) : CodeAt(g) < CodeAt(g + 1)
              /\ {CodeAt(g) : g \in 1..N} = {row.Codigo : row \in rows}
              /\ total_inserted[t] = N

\* 2500 rows have gone out as batches of 1000, 1000 and 500.
C2_Witness ==
    \E t \in Threads :
        /\ Returned(t, TRUE)
        /\ readDb[t] = 2500
        /\ Len(Posts(t)) = 3
        /\ Len(Posts(t)[1].codes) = 1000
        /\ Len(Posts(t)[2].codes) = 1000
        /\ Len(Posts(t)[3].codes) = 500
        /\ total_inserted[t] = 2500

(***************************************************************************)
(* C3: an insert answered with a status outside 200, 201, 204 is the last  *)
(* request of its run, which has returned False: no later batch is posted. *)
(* The batches inserted before it stay: as long as the mirror has carried  *)
(* out no request of another run, it holds the entries of every earlier    *)
(* batch, and after a successful delete nothing else (the delete is not    *)
(* undone).                                                                *)
(***************************************************************************)
C3_FailedBatchAbortsAndEarlierStay ==
    \A t \in Threads : \A k \in 1..Len(calls[t]) :
        (/\ calls[t][k].op = "POST"
         /\ ~calls[t][k].raised
         /\ calls[t][k].status \notin {200, 201, 204})
        => /\ k = Len(calls[t])
           /\ Returned(t, FALSE)
           /\ LET earlier == UNION {EntriesOf(t, calls[t][j]) : j \in 3..(k - 1)}
              IN /\ ~disturbed[t] => earlier \subseteq mirror
                 /\ (~disturbed[t] /\ DeleteSucceeded(t)) => mirror = earlier

\* The second of three batches failed: the first stands, the third was
\* never posted.
C3_Witness ==
    \E t \in Threads :
        /\ readDb[t] = 2500
        /\ Len(calls[t]) = 4
        /\ calls[t][3].status = 201
        /\ calls[t][4].op = "POST" /\ calls[t][4].status = 500
        /\ DeleteSucceeded(t) /\ ~disturbed[t]
        /\ Cardinality(mirror) = 1000

(***************************************************************************)
(* C4: a run whose connection or query raised has returned False and has   *)
(* sent the mirror neither the bulk delete nor any insert; with no request *)
(* of another run either, the mirror is as it was at the start.  It fails: *)
(* when the message of the exception cannot be written to the standard     *)
(* output, the run returns nothing (the print of src/app.py:151 raises).   *)
(***************************************************************************)
C4_SourceFailureTouchesNothing ==
    \A t \in Threads :
        ConnectFailed(t)
        => /\ Returned(t, FALSE)
           /\ Len(calls[t]) = 1
           /\ NoMirrorRequest(t)
           /\ (\A u \in Threads \ {t} : NoMirrorRequest(u)) => mirror = StaleMirror

(***************************************************************************)
(* C5: with SUPABASE_URL or SUPABASE_KEY missing or empty, a call of       *)
(* sync_catalog_to_supabase returns False, opens no connection to the      *)
(* source, sends neither delete nor insert, and the mirror stays as it was.*)
(***************************************************************************)
C5_NotConfiguredIsNoOp ==
    (IsFalsy(SUPABASE_URL) \/ IsFalsy(SUPABASE_KEY))
    => /\ mirror = StaleMirror
       /\ clock = 0
       /\ \A t \in Threads :
             /\ calls[t] = <<>>
             /\ pc[t] \in {"idle", "returned"}
             /\ pc[t] = "returned" => result[t] = FALSE

\* The URL is set and the key is not; both threads have called and returned.
C5_Witness ==
    /\ ~IsFalsy(SUPABASE_URL)
    /\ IsFalsy(SUPABASE_KEY)
    /\ \A t \in Threads : Returned(t, FALSE) /\ calls[t] = <<>>

\* The order of the requests of a run that has read the source: the
\* connection, then one bulk delete, then only inserts.
OneDeleteBeforeInserts(t) ==
    /\ calls[t][1].op = "CONNECT"
    /\ pc[t] = "delete" => Len(calls[t]) = 1
    /\ pc[t] \in {"insert", "returned"}
          => /\ Len(calls[t]) >= 2
             /\ calls[t][2].op = "DELETE"
             /\ Len(Deletes(t)) = 1
             /\ \A k \in 3..Len(calls[t]) : calls[t][k].op = "POST"

(***************************************************************************)
(* C6: every run that has read the source sends exactly one bulk delete,   *)
(* after the read and before any insert; with zero eligible rows the       *)
(* delete is still sent, no insert is, and the run returns True with 0     *)
(* inserted.  A run whose delete call itself raised is read as reporting   *)
(* failure, as the except of src/app.py:146 intends.  It fails all the     *)
(* same: when the delete is answered with a status that is not 200 or 204  *)
(* and a text the standard output cannot encode, the print of 126 raises   *)
(* and the run of zero rows returns False.                                 *)
(***************************************************************************)
C6_OneDeleteThenInserts ==
    \A t \in Threads :
        ReadOk(t)
        => /\ OneDeleteBeforeInserts(t)
           /\ (pc[t] = "returned" /\ Cardinality(EligibleRows(readDb[t])) = 0)
                 => /\ Posts(t) = <<>>
                    /\ total_inserted[t] = 0
                    /\ result[t] = ~calls[t][2].raised

(***************************************************************************)
(* What the claims on GET /search-multi speak of.                          *)
(***************************************************************************)

\* The request has been answered.
Responded == search_pc = "responded"

\* The token of the request is missing, or is not the configured shared
\* secret; when no secret is configured no token is.
BadToken ==
    \/ request.token = None
    \/ API_TOKEN = None
    \/ request.token # API_TOKEN

\* The token of the request is the configured shared secret.
Authorized == API_TOKEN # None /\ request.token = API_TOKEN

\* C7: every request whose token is missing or is not the configured
\* shared secret is answered 403, whatever its query, and without a call
\* to the source database; also when no secret is configured.
C7_BadTokenIs403 ==
    Responded /\ BadToken =>
        /\ response.status = 403
        /\ search_db.connects = 0

\* The query is missing, or holds nothing but white space and commas.
NoTermIn(query) ==
    \/ query = None
    \/ \A i \in 1..Len(query) : is_space(query[i]) \/ query[i] = ","

\* C8: an authorized request whose query is missing, empty, white space,
\* or leaves no non-empty term once split on commas and trimmed, is
\* answered 400 with an error body, and no connection to the source
\* database is opened.
C8_NoTermIs400 ==
    Responded /\ Authorized /\ NoTermIn(request.query) =>
        /\ response.status = 400
        /\ response.error # ""
        /\ search_db.connects = 0

\* An authorized request of only commas and spaces, answered 400.
C8_Witness ==
    /\ Responded
    /\ Authorized
    /\ request.query = <<" ", ",", " ">>
    /\ response = Response(400, "No valid terms provided.", <<>>)
    /\ search_db.connects = 0

\* C9: a response never holds a row whose price is <= 0, whatever the
\* number of terms and the content of the table; its rows are in
\* non-decreasing order of price and are at most 200.
C9_ResultsPricedSortedLimited ==
    Responded /\ response.status = 200 =>
        LET rows == response.results
        IN /\ \A i \in 1..Len(rows) : rows[i].PrecioFinal > 0
           /\ \A i \in 1..(Len(rows) - 1) :
                 rows[i].PrecioFinal <= rows[i + 1].PrecioFinal
           /\ Len(rows) <= 200

\* The trimmed non-empty terms of a query, read off the positions of its
\* commas: between two neighbouring commas (or ends), the text from the
\* first to the last character that is not white space.
ExpectedTerms(query) ==
    LET cuts == {0, Len(query) + 1} \cup {i \in 1..Len(query) : query[i] = ","}
        spans == {s \in cuts \X cuts :
                     /\ s[1] < s[2]
                     /\ \A c \in cuts : ~(s[1] < c /\ c < s[2])}
        inside(s) == {i \in (s[1] + 1)..(s[2] - 1) : ~is_space(query[i])}
        kept == {s \in spans : inside(s) # {}}
        first(s) == CHOOSE i \in inside(s) : \A j \in inside(s) : i <= j
        last(s) == CHOOSE i \in inside(s) : \A j \in inside(s) : j <= i
        nth(k) == CHOOSE s \in kept :
                     Cardinality({t \in kept : t[1] <= s[1]}) = k
    IN [k \in 1..Cardinality(kept) |->
           SubSeq(query, first(nth(k)), last(nth(k)))]

\* C10: for a query of N >= 1 trimmed non-empty terms the condition of
\* the query is N LIKE predicates joined by OR (then the price
\* predicate), a text fixed by N alone, and the parameters are N, the
\* i-th being % + the i-th term + %, in input order, duplicates kept.
C10_OnePredicateAndParameterPerTerm ==
    Responded /\ (response.status = 200 \/ search_db.where # <<>>) =>
        LET terms == ExpectedTerms(request.query)
            N == Len(terms)
        IN /\ N >= 1
           /\ search_db.where =
                 [k \in 1..(2 * N - 1) |->
                     IF k % 2 = 1 THEN "Descri LIKE ?" ELSE "OR"]
                 \o <<"AND", "PrecioFinal > 0">>
           /\ search_db.params =
                 [i \in 1..N |-> <<"%">> \o terms[i] \o <<"%">>]

\* A request of three terms, the first and the last the same, answered
\* 200.
C10_Witness ==
    /\ Responded
    /\ response.status = 200
    /\ request.query = <<"a", ",", " ", "e", " ", ",", "a">>
    /\ search_db.params =
          << <<"%", "a", "%">>, <<"%", "e", "%">>, <<"%", "a", "%">> >>
    /\ Len(search_db.where) = 7

\* C11: a request that has ended has one response, of status 403, 400,
\* 500 or 200; once the handler has gone on to the database, an exception
\* of the connection or of the query gives 500 with the message of the
\* exception, and no exception gives 200 with total the number of rows
\* returned.
C11_OneResponseOfFour ==
    Responded =>
        /\ response.status \in {403, 400, 500, 200}
        /\ search_db.connects = 0 => response.status \in {403, 400}
        /\ search_db.connects = 1 =>
              IF search_db.raised # ""
              THEN /\ response.status = 500
                   /\ response.error = search_db.raised
                   /\ response.results = <<>>
              ELSE /\ response.status = 200
                   /\ response.total = Len(response.results)

\* The query raised after the connection was made, and the answer is 500
\* with its message.
C11_Witness ==
    /\ Responded
    /\ search_db.connects = 1
    /\ search_db.where # <<>>
    /\ search_db.raised = "query failed"
    /\ response = Response(500, "query failed", <<>>)

(***************************************************************************)
(* What the claims on the start of the process speak of.                   *)
(***************************************************************************)

\* The threads of the set that have been started.
Started(threads) == {t \in threads : pc[t] # "not started"}

\* C12: at process start with the mirror credentials present, for every
\* entry point, the initial sync is run once and one scheduler loop is
\* started.
C12_OneInitialSyncOneScheduler ==
    boot = "serving" /\ ~NotConfigured =>
        /\ Cardinality(Started(SyncThreads)) = 1
        /\ Cardinality(Started(SchedulerThreads)) = 1

(***************************************************************************)
(* What the claims on the text utilities speak of.                         *)
(***************************************************************************)

\* The upper-case letters among the characters of the model; the last has
\* no lower-case form.
UpperCase ==
    {"A", "C", "D", "E", "L", "O", "S", "T",
     "Á", "É", "Í", "Ó", "Ú", "Ñ", "Ü", "U+2102"}

\* The accented characters of the fixed table.
Accented == {"á", "é", "í", "ó", "ú", "ñ", "ü"}

\* The text holds none of the letters, no accented character of the
\* table, no two white-space characters in a row, and no white space at
\* either end.
Plain(text, letters) ==
    /\ \A i \in 1..Len(text) : text[i] \notin letters \cup Accented
    /\ \A i \in 1..(Len(text) - 1) : ~(is_space(text[i]) /\ is_space(text[i + 1]))
    /\ text # <<>> => ~is_space(text[1]) /\ ~is_space(text[Len(text)])

\* C13 as stated: normalize_text applied to its own result gives that
\* result, and a result holds no upper-case letter, no accented character
\* of the table, no run of two white-space characters and no white space
\* at either end.
C13_IdempotentNoUpperCase ==
    /\ text_op = "normalized again" => text_out = text_in
    /\ text_op \in {"normalized", "normalized again"} => Plain(text_out, UpperCase)

\* C13, amended: as stated, but the letters a result is free of are the
\* upper-case letters that have a lower-case form.
C13_IdempotentLowered ==
    /\ text_op = "normalized again" => text_out = text_in
    /\ text_op \in {"normalized", "normalized again"} =>
          Plain(text_out, UpperCase \ {"U+2102"})

\* A result of normalize_text (of "A", space, tab and the letter without
\* lower-case form, in some arrangement) normalized again.
C13_Witness ==
    /\ text_op = "normalized again"
    /\ text_in = <<"a", " ", "U+2102">>
    /\ text_out = text_in

\* The fixed stop-word set, as the claims list it.
FixedStopWords ==
    { <<"d","e">>, <<"l","a">>, <<"e","l">>, <<"e","n">>, <<"c","o","n">>,
      <<"p","a","r","a">>, <<"p","o","r">>, <<"u","n">>, <<"u","n","a">>,
      <<"y">>, <<"o">>, <<"d","e","l">>, <<"l","a","s">>, <<"l","o","s">> }

\* C14: the result of extract_keywords holds no stop word and no string
\* of length <= 2, the derived variants counted.
C14_NoStopWordNoShortString ==
    text_op = "keywords" =>
        \A k \in text_out : k \notin FixedStopWords /\ Len(k) > 2

\* The surviving tokens of a description: the maximal runs of word
\* characters of its normalized text, read off their positions, that are
\* longer than 2 and are no stop word.
SurvivingTokens(description) ==
    LET text == normalize_text(description)
        IsRun(i, j) ==
            /\ \A k \in i..j : is_word_char(text[k])
            /\ i = 1 \/ ~is_word_char(text[i - 1])
            /\ j = Len(text) \/ ~is_word_char(text[j + 1])
        tokens == {SubSeq(text, r[1], r[2]) :
                      r \in {q \in (1..Len(text)) \X (1..Len(text)) :
                                q[1] <= q[2] /\ IsRun(q[1], q[2])}}
    IN {w \in tokens : Len(w) > 2 /\ w \notin FixedStopWords}

\* The one variant derived from a token.
DerivedVariant(w) ==
    IF Len(w) > 3 /\ w[Len(w)] = "s"
    THEN [i \in 1..(Len(w) - 1) |-> w[i]]
    ELSE w \o <<"s">>

\* C15: the result of extract_keywords is the surviving tokens together
\* with the one variant derived from each, and nothing else; so it has at
\* most twice as many elements as there are surviving tokens, and for an
\* empty or missing description it is empty.
C15_TokensAndTheirVariants ==
    text_op = "keywords" =>
        LET surviving == SurvivingTokens(text_in)
        IN /\ text_out = surviving \cup {DerivedVariant(w) : w \in surviving}
           /\ Cardinality(text_out) <= 2 * Cardinality(surviving)
           /\ text_in \in {None, <<>>} => text_out = {}

\* A description of a plural and its singular: each is the variant of the
\* other and the result holds each once.
C15_Witness ==
    /\ text_op = "keywords"
    /\ text_in = <<"T", "a", "c", "o", "s", ",", " ", " ", "t", "a", "c", "o">>
    /\ text_out = {<<"t", "a", "c", "o">>, <<"t", "a", "c", "o", "s">>}

(***************************************************************************)
(* Further claims on sync_catalog_to_supabase.                             *)
(***************************************************************************)

\* The bulk delete of the run of t was answered with a status that is not
\* a success.
DeleteRefused(t) ==
    /\ Len(calls[t]) >= 2
    /\ ~calls[t][2].raised
    /\ calls[t][2].status \notin {200, 204}

\* The insert request was answered with a success status.
PostSucceeded(call) == ~call.raised /\ call.status \in {200, 201, 204}

\* C16: a bulk delete answered with a status that is not 200 or 204 does
\* not end the run: the batches are posted after it, in the order of the
\* codes, and the run returns True exactly when every batch succeeded
\* (then all ceil(N/1000) batches were posted).  It fails: when the text
\* of the response cannot be written to the standard output, the print of
\* src/app.py:126 raises and the run returns False with no batch posted.
C16_RefusedDeleteDoesNotAbort ==
    \A t \in Threads :
        pc[t] = "returned" /\ ReadOk(t) /\ DeleteRefused(t) =>
            LET posts == Posts(t)
                N == Cardinality(EligibleRows(readDb[t]))
                all == \A k \in 1..Len(posts) : PostSucceeded(posts[k])
            IN /\ result[t] = all
               /\ N > 0 => Len(posts) >= 1
               /\ all => Len(posts) = (N + 999) \div 1000
               /\ \A k \in 1..Len(posts) :
                     /\ calls[t][k + 2] = posts[k]
                     /\ k > 1 => posts[k - 1].codes[Len(posts[k - 1].codes)]
                                    < posts[k].codes[1]

\* The run of t is over, and its read, its delete and every one of its
\* inserts succeeded.
CompletedClean(t) ==
    /\ pc[t] = "returned"
    /\ ReadOk(t)
    /\ DeleteSucceeded(t)
    /\ \A k \in 1..Len(Posts(t)) : PostSucceeded(Posts(t)[k])

\* C17: two runs, interleaved in any way, that read the same content of
\* the source and whose deletes and inserts all succeeded leave, once both
\* are over, one entry for each eligible code of the source and nothing
\* else; each entry is the enriched entry one of the two runs built.
C17_OverlappingSyncsConverge ==
    (/\ \A t \in Threads : CompletedClean(t)
     /\ readDb["initial"] = readDb["scheduler"])
    => LET n == readDb["initial"]
       IN /\ {e.codigo : e \in mirror} = {row.Codigo : row \in EligibleRows(n)}
          /\ OneEntryPerCode(mirror)
          /\ mirror \subseteq Image(n, readAt["initial"])
                                \cup Image(n, readAt["scheduler"])

\* Two runs over 2500 rows have overlapped: both are over and the mirror
\* holds entries built by the one and entries built by the other.
C17_Witness ==
    /\ \A t \in Threads : CompletedClean(t) /\ readDb[t] = 2500
    /\ Cardinality(mirror) = 2500
    /\ \E e \in mirror : e.updated_at = readAt["initial"]
    /\ \E e \in mirror : e.updated_at = readAt["scheduler"]
    /\ readAt["initial"] # readAt["scheduler"]

\* The codes of the batches the run of t has posted so far.
PostedCodes(t) ==
    UNION {{Posts(t)[k].codes[j] : j \in 1..Len(Posts(t)[k].codes)} :
              k \in 1..Len(Posts(t))}

\* C18: the delete and the inserts of a run are not one step.  In every
\* state between the successful delete of a run and its last insert,
\* while the mirror has carried out no request of another run, the
\* mirror holds the entries of the batches posted so far and no other:
\* nothing right after the delete, and always fewer than the eligible
\* entries, whatever it held before the delete.
C18_MirrorPartialBetweenDeleteAndLastInsert ==
    \A t \in Threads :
        pc[t] = "insert" /\ DeleteSucceeded(t) /\ ~disturbed[t] =>
            LET eligible == {row.Codigo : row \in EligibleRows(readDb[t])}
                held == {e.codigo : e \in mirror}
            IN /\ eligible # {}
               /\ held = PostedCodes(t)
               /\ held \subseteq eligible /\ held # eligible
               /\ Posts(t) = <<>> => mirror = {}

\* The other run had made the mirror complete (its three batches of the
\* 2500 rows, all before the delete of this run); this run, which can
\* still end in success, has deleted and posted its first batch, and the
\* mirror holds 1000 of the 2500 entries.
C18_Witness ==
    \E t \in Threads : \E u \in Threads \ {t} :
        /\ CompletedClean(u) /\ result[u] /\ readDb[u] = 2500
        /\ Len(Posts(u)) = 3
        /\ pc[t] = "insert" /\ DeleteSucceeded(t) /\ readDb[t] = 2500
        /\ Len(Posts(t)) = 1
        /\ Cardinality(mirror) = 1000
        /\ \A e \in mirror : e.updated_at = readAt[t]

\* C20: sync_catalog_to_supabase ends with a boolean and never raises.  A
\* run is always at one of its calls or has returned; it makes at most
\* the read, the delete and ceil(N/1000) inserts; a call that raised (the
\* read with the enrichment, the delete, an insert) is the last of its
\* run, which has returned False; and the entries of the batches inserted
\* before it are in the mirror, as long as the mirror has carried out no
\* request of another run.  It fails: the print of src/app.py:151 raises
\* when the standard output cannot encode the message of the exception,
\* and its UnicodeEncodeError leaves the function.
C20_NeverRaisesAlwaysBoolean ==
    \A t \in Threads :
        /\ pc[t] \in {"idle", "delete", "insert", "returned"}
        /\ result[t] \in BOOLEAN
        /\ ReadOk(t) =>
              Len(calls[t]) <= 2 + ((Cardinality(EligibleRows(readDb[t])) + 999) \div 1000)
        /\ \A k \in 1..Len(calls[t]) :
              calls[t][k].raised =>
                  /\ k = Len(calls[t])
                  /\ Returned(t, FALSE)
                  /\ ~disturbed[t] =>
                        UNION {EntriesOf(t, calls[t][j]) : j \in 3..(k - 1)}
                            \subseteq mirror

(***************************************************************************)
(* What the claim on the scheduler speaks of.                              *)
(***************************************************************************)

\* A run of the job has just ended in failure: it has returned False, or
\* an exception has left it.
FailedScheduledRun ==
    \/ pc["scheduler"] = "returned" /\ ~result["scheduler"]
    \/ pc["scheduler"] = "raised"

\* C19: a failing sync never ends the scheduler loop.  The thread is
\* always in the loop or in the job; the job is called only when it is
\* due; when a run of the job is over, whatever it returned, the loop goes
\* on with the next run one period of 8 hours ahead; and after a run that
\* ended in failure (the read raised, the delete or an insert raised, a
\* batch was refused) the job is called again.  It fails: an exception
\* that leaves sync_catalog_to_supabase (the print of src/app.py:151
\* raising) ends the loop and the thread.
C19_FailedSyncDoesNotStopScheduler ==
    /\ [](pc["scheduler"] \in {"not started", "started", "polling", "sleeping",
                                "idle", "delete", "insert", "returned"})
    /\ [](pc["scheduler"] = "idle" => wait = 0)
    /\ [][pc["scheduler"] \in {"returned", "raised"}
            /\ pc'["scheduler"] # pc["scheduler"] =>
             pc'["scheduler"] = "sleeping" /\ wait' = PollsPerPeriod]_vars
    /\ (FailedScheduledRun /\ runs < MaxRuns) ~> pc["scheduler"] = "idle"

====
